---- MODULE Spec2Model ----
(***************************************************************************)
(* Model of the ai-issue-resolver GitHub Action: one invocation of run()   *)
(* (which enters IssueHandler.handleIssue) or of PRHandler.handleComment   *)
(* against the LLM collaborator and the repository collaborator (Octokit   *)
(* REST client), and a second invocation for the same change comment.      *)
(*                                                                         *)
(* Strings are sequences of tokens.  The tokens of comment bodies form a   *)
(* prefix-free code ("/ai-issue-resolver", "/axiotree-langchain-ai",       *)
(* "-change", "-review", " ", words), so startsWith, replace and trim on   *)
(* token sequences agree with the same operations on the characters.       *)
(* LLM texts are sequences of lexical tokens: the six structural JSON      *)
(* characters, whitespace, number literals, prose words, and string        *)
(* literals (every other token t stands for the quoted literal "t").       *)
(***************************************************************************)
EXTENDS Integers, Sequences, FiniteSets, TLC

(***************************************************************************)
(* Bounds of the model.                                                    *)
(***************************************************************************)
MaxChanges == 2          \* longest change list an LLM text carries
MaxOtherWrites == 1      \* writes by other writers during one invocation

(***************************************************************************)
(* String helpers (String.prototype.startsWith / replace / trim).          *)
(***************************************************************************)
StartsWith(s, p) ==
  /\ Len(p) <= Len(s)
  /\ SubSeq(s, 1, Len(p)) = p

\* positions at which p occurs in s
Occurrences(s, p) ==
  {i \in 1..(Len(s) - Len(p) + 1) : SubSeq(s, i, i + Len(p) - 1) = p}

Min(S) == CHOOSE m \in S : \A n \in S : m <= n
Max(S) == CHOOSE m \in S : \A n \in S : m >= n

\* s.replace(p, r) with a string pattern: only the first occurrence is replaced
Replace(s, p, r) ==
  IF Occurrences(s, p) = {} THEN s
  ELSE LET i == Min(Occurrences(s, p))
       IN SubSeq(s, 1, i - 1) \o r \o SubSeq(s, i + Len(p), Len(s))

WhiteSpace == {" ", "\n"}

\* s.trim(): strips leading and trailing whitespace, keeps inner whitespace
Trim(s) ==
  LET keep == {i \in 1..Len(s) : s[i] \notin WhiteSpace}
  IN IF keep = {} THEN <<>> ELSE SubSeq(s, Min(keep), Max(keep))

(***************************************************************************)
(* Configuration constants.                                                *)
(***************************************************************************)
AI_PR_LABEL == "ai-issue-resolver-pr"
AI_CHANGE_COMMAND == <<"/ai-issue-resolver", "-change">>
AI_REVIEW_COMMAND == <<"/ai-issue-resolver", "-review">>
\* the literal prefix run() tests before it hands a comment to handleComment
RUN_COMMENT_PREFIX == <<"/axiotree-langchain-ai">>

(***************************************************************************)
(* JSON: lexical tokens, values, JSON.parse.                               *)
(* Values are tagged records with a type tag t (str, num, arr, obj) and a  *)
(* payload v: the string, the number literal, the sequence of elements,    *)
(* or the function from keys to member values.                             *)
(***************************************************************************)
Structural == {"[", "]", "{", "}", ",", ":"}
NumTok == {"7"}
ProseTok == {"Sure", "~~~", "Enjoy", "Sorry"}

IsStrTok(t) == t \notin Structural \cup NumTok \cup ProseTok \cup WhiteSpace

JStr(s) == [t |-> "str", v |-> s]
JNum(n) == [t |-> "num", v |-> n]
JArr(a) == [t |-> "arr", v |-> a]
JObj(o) == [t |-> "obj", v |-> o]

Fail == [ok |-> FALSE]
Ok(val, next) == [ok |-> TRUE, val |-> val, next |-> next]

\* o with key k set to v (a later duplicate key overwrites an earlier one)
PutKey(o, k, v) == [x \in (DOMAIN o) \cup {k} |-> IF x = k THEN v ELSE o[x]]

RECURSIVE ParseValue(_, _), ParseElems(_, _, _), ParseMembers(_, _, _)

\* parse one JSON value of toks starting at position i
ParseValue(toks, i) ==
  IF i > Len(toks) THEN Fail
  ELSE IF toks[i] = "[" THEN
         IF i + 1 <= Len(toks) /\ toks[i + 1] = "]"
         THEN Ok(JArr(<<>>), i + 2)
         ELSE ParseElems(toks, i + 1, <<>>)
  ELSE IF toks[i] = "{" THEN
         IF i + 1 <= Len(toks) /\ toks[i + 1] = "}"
         THEN Ok(JObj(<<>>), i + 2)
         ELSE ParseMembers(toks, i + 1, <<>>)
  ELSE IF toks[i] \in NumTok THEN Ok(JNum(toks[i]), i + 1)
  ELSE IF IsStrTok(toks[i]) THEN Ok(JStr(toks[i]), i + 1)
  ELSE Fail

\* elements of an array after "[" or ",": value then "," or "]"
ParseElems(toks, i, acc) ==
  LET r == ParseValue(toks, i)
  IN IF ~r.ok THEN Fail
     ELSE IF r.next > Len(toks) THEN Fail
     ELSE IF toks[r.next] = "]" THEN Ok(JArr(Append(acc, r.val)), r.next + 1)
     ELSE IF toks[r.next] = "," THEN ParseElems(toks, r.next + 1, Append(acc, r.val))
     ELSE Fail

\* members of an object after "{" or ",": string ":" value then "," or "}"
ParseMembers(toks, i, acc) ==
  IF i + 1 > Len(toks) THEN Fail
  ELSE IF ~IsStrTok(toks[i]) \/ toks[i + 1] # ":" THEN Fail
  ELSE LET r == ParseValue(toks, i + 2)
       IN IF ~r.ok THEN Fail
          ELSE IF r.next > Len(toks) THEN Fail
          ELSE IF toks[r.next] = "}"
               THEN Ok(JObj(PutKey(acc, toks[i], r.val)), r.next + 1)
          ELSE IF toks[r.next] = ","
               THEN ParseMembers(toks, r.next + 1, PutKey(acc, toks[i], r.val))
          ELSE Fail

NoWhiteSpace(text) == SelectSeq(text, LAMBDA t : t \notin WhiteSpace)

\* a parse that accepts only an array or an object at the top level
JSONParseNoScalar(text) ==
  LET toks == NoWhiteSpace(text)
      r == ParseValue(toks, 1)
  IN IF r.ok /\ r.next = Len(toks) + 1 /\ r.val.t \in {"arr", "obj"}
     THEN [ok |-> TRUE, val |-> r.val] ELSE Fail

\* JSON.parse(text): the whole text is exactly one value (whitespace skipped)
JSONParse(text) ==
  LET toks == NoWhiteSpace(text)
      r == ParseValue(toks, 1)
  IN IF r.ok /\ r.next = Len(toks) + 1 THEN [ok |-> TRUE, val |-> r.val] ELSE Fail

(***************************************************************************)
(* AIService.extractJSONFromResponse.                                      *)
(***************************************************************************)
\* the closing tokens after position i that end a span opened at i
Closers(text, i) ==
  {j \in (i + 1)..Len(text) :
     \/ text[i] = "[" /\ text[j] = "]"
     \/ text[i] = "{" /\ text[j] = "}"}

\* a match that stops at the first closer instead of the last
RegexMatchLazy(text) ==
  LET starts == {i \in 1..Len(text) : Closers(text, i) # {}}
  IN IF starts = {} THEN [found |-> FALSE]
     ELSE LET i == Min(starts)
          IN [found |-> TRUE, span |-> SubSeq(text, i, Min(Closers(text, i)))]

\* content.match(/(\[[\s\S]*\])|(\{[\s\S]*\})/): the leftmost position where an
\* alternative matches, extended greedily to the last closer of its kind
RegexMatch(text) ==
  LET starts == {i \in 1..Len(text) : Closers(text, i) # {}}
  IN IF starts = {} THEN [found |-> FALSE]
     ELSE LET i == Min(starts)
          IN [found |-> TRUE, span |-> SubSeq(text, i, Max(Closers(text, i)))]

\* an extraction without the fallback to the bracket span
extractJSONDirectOnly(content) ==
  LET direct == JSONParse(content)
  IN IF direct.ok THEN [ok |-> TRUE, val |-> direct.val]
     ELSE [ok |-> FALSE, error |-> "No valid JSON found in response"]

extractJSONFromResponse(content) ==
  LET direct == JSONParse(content)
      m == RegexMatch(content)
  IN IF direct.ok THEN [ok |-> TRUE, val |-> direct.val]
     ELSE IF m.found
          THEN LET inner == JSONParse(m.span)
               IN IF inner.ok THEN [ok |-> TRUE, val |-> inner.val]
                  ELSE [ok |-> FALSE, error |-> "Found JSON-like content but failed to parse"]
          ELSE [ok |-> FALSE, error |-> "No valid JSON found in response"]

(***************************************************************************)
(* Zod schemas and their parse().  z.object strips unknown keys; nothing   *)
(* is coerced; z.string() accepts the empty string.                        *)
(***************************************************************************)
IsStr(x) == x.t = "str"
IsArr(x) == x.t = "arr"
IsObj(x) == x.t = "obj"
HasStr(o, k) == k \in DOMAIN o /\ IsStr(o[k])
HasEnum(o, k, E) == k \in DOMAIN o /\ IsStr(o[k]) /\ o[k].v \in E
IsStrArr(x) == IsArr(x) /\ \A n \in 1..Len(x.v) : IsStr(x.v[n])

\* z.object({ path: z.string(), content: z.string(), message: z.string() })
CodeChangeOk(x) ==
  /\ IsObj(x)
  /\ HasStr(x.v, "path") /\ HasStr(x.v, "content") /\ HasStr(x.v, "message")

\* a validation that keeps the valid elements and drops the others
codeChangeSchemaPartial(x) ==
  IF IsArr(x)
  THEN LET good == SelectSeq(x.v, CodeChangeOk)
       IN [ok |-> TRUE,
           val |-> [n \in 1..Len(good) |->
                      [path |-> good[n].v["path"].v,
                       content |-> good[n].v["content"].v,
                       message |-> good[n].v["message"].v]]]
  ELSE [ok |-> FALSE, error |-> "ZodError"]

codeChangeSchema(x) ==
  IF IsArr(x) /\ \A n \in 1..Len(x.v) : CodeChangeOk(x.v[n])
  THEN [ok |-> TRUE,
        val |-> [n \in 1..Len(x.v) |->
                   [path |-> x.v[n].v["path"].v,
                    content |-> x.v[n].v["content"].v,
                    message |-> x.v[n].v["message"].v]]]
  ELSE [ok |-> FALSE, error |-> "ZodError"]

QualityIssueOk(x) ==
  /\ IsObj(x)
  /\ HasEnum(x.v, "type", {"performance", "maintainability", "complexity"})
  /\ HasStr(x.v, "file") /\ HasStr(x.v, "description") /\ HasStr(x.v, "suggestion")
  /\ HasEnum(x.v, "severity", {"low", "medium", "high"})

SecurityIssueOk(x) ==
  /\ IsObj(x)
  /\ HasStr(x.v, "type") /\ HasStr(x.v, "file") /\ HasStr(x.v, "description")
  /\ HasEnum(x.v, "severity", {"low", "medium", "high", "critical"})
  /\ HasStr(x.v, "remediation")

ImprovementOk(x) ==
  /\ IsObj(x)
  /\ HasStr(x.v, "file") /\ HasStr(x.v, "description") /\ HasStr(x.v, "suggestion")

TestingSuggestionOk(x) ==
  /\ IsObj(x)
  /\ HasStr(x.v, "file") /\ HasStr(x.v, "description")
  /\ "testCases" \in DOMAIN x.v /\ IsStrArr(x.v["testCases"])

ReviewKeys == {"qualityIssues", "securityIssues", "improvements", "testingSuggestions"}

\* the validated elements of one array, with the keys the schema declares
Items(arr, keys) ==
  [n \in 1..Len(arr.v) |-> [k \in keys |-> arr.v[n].v[k].v]]

\* a validation in which every key of the review is optional
reviewSchemaAllOptional(x) ==
  IF IsObj(x) /\ \A k \in DOMAIN x.v : IsArr(x.v[k]) /\ Len(x.v[k].v) = 0
  THEN [ok |-> TRUE,
        val |-> [qualityIssues |-> <<>>, securityIssues |-> <<>>,
                 improvements |-> <<>>, testingSuggestions |-> <<>>]]
  ELSE [ok |-> FALSE, error |-> "ZodError"]

reviewSchema(x) ==
  IF /\ IsObj(x)
     /\ \A k \in ReviewKeys : k \in DOMAIN x.v /\ IsArr(x.v[k])
     /\ \A n \in 1..Len(x.v["qualityIssues"].v) : QualityIssueOk(x.v["qualityIssues"].v[n])
     /\ \A n \in 1..Len(x.v["securityIssues"].v) : SecurityIssueOk(x.v["securityIssues"].v[n])
     /\ \A n \in 1..Len(x.v["improvements"].v) : ImprovementOk(x.v["improvements"].v[n])
     /\ \A n \in 1..Len(x.v["testingSuggestions"].v) :
           TestingSuggestionOk(x.v["testingSuggestions"].v[n])
  THEN [ok |-> TRUE,
        val |-> [qualityIssues |->
                   Items(x.v["qualityIssues"],
                         {"type", "file", "description", "suggestion", "severity"}),
                 securityIssues |->
                   Items(x.v["securityIssues"],
                         {"type", "file", "description", "severity", "remediation"}),
                 improvements |->
                   Items(x.v["improvements"], {"file", "description", "suggestion"}),
                 testingSuggestions |->
                   Items(x.v["testingSuggestions"], {"file", "description", "testCases"})]]
  ELSE [ok |-> FALSE, error |-> "ZodError"]

(***************************************************************************)
(* What the error handlers wrapped around the two parses return.  threw    *)
(* tells whether an error leaves the try block the parse sits in.          *)
(***************************************************************************)
\* a generation call whose parse errors are not caught
ChangesOrThrow(content) ==
  LET e == extractJSONFromResponse(content)
  IN IF ~e.ok THEN [threw |-> TRUE, val |-> <<>>]
     ELSE LET z == codeChangeSchema(e.val)
          IN IF z.ok THEN [threw |-> FALSE, val |-> z.val]
             ELSE [threw |-> TRUE, val |-> <<>>]

\* try { extract; codeChangeSchema.parse } catch { return [] }
ChangesOrEmpty(content) ==
  LET e == extractJSONFromResponse(content)
  IN IF ~e.ok THEN [threw |-> FALSE, val |-> <<>>]
     ELSE LET z == codeChangeSchema(e.val)
          IN IF z.ok THEN [threw |-> FALSE, val |-> z.val]
             ELSE [threw |-> FALSE, val |-> <<>>]

EmptyReview ==
  [qualityIssues |-> <<>>, securityIssues |-> <<>>,
   improvements |-> <<>>, testingSuggestions |-> <<>>]

\* a review call that hands on what it extracted when validation fails
ReviewOrPartial(content) ==
  LET e == extractJSONFromResponse(content)
  IN IF ~e.ok THEN [threw |-> FALSE, val |-> EmptyReview]
     ELSE LET z == reviewSchema(e.val)
          IN IF z.ok THEN [threw |-> FALSE, val |-> z.val]
             ELSE [threw |-> FALSE, val |-> [qualityIssues |-> <<>>]]

\* try { extract; reviewSchema.parse } catch { return all-empty feedback }
ReviewOrEmpty(content) ==
  LET e == extractJSONFromResponse(content)
  IN IF ~e.ok THEN [threw |-> FALSE, val |-> EmptyReview]
     ELSE LET z == reviewSchema(e.val)
          IN IF z.ok THEN [threw |-> FALSE, val |-> z.val]
             ELSE [threw |-> FALSE, val |-> EmptyReview]

(***************************************************************************)
(* LLM texts the model draws responses from.                               *)
(***************************************************************************)
RECURSIVE JoinComma(_)
JoinComma(ts) ==
  IF Len(ts) = 0 THEN <<>>
  ELSE IF Len(ts) = 1 THEN ts[1]
  ELSE ts[1] \o <<",">> \o JoinComma(Tail(ts))

ArrayText(ts) == <<"[">> \o JoinComma(ts) \o <<"]">>
ObjectText(ms) == <<"{">> \o JoinComma(ms) \o <<"}">>
Member(k, vt) == <<k, ":">> \o vt

SeqsUpTo(S, n) == UNION {[1..m -> S] : m \in 0..n}

ChangeObjTexts ==
  { ObjectText(<<Member("path", <<"a">>), Member("content", <<"c1">>),
                 Member("message", <<"m1">>)>>),
    ObjectText(<<Member("path", <<"b">>), Member("content", <<"c2">>),
                 Member("message", <<"m2">>)>>),
    ObjectText(<<Member("path", <<"a">>), Member("content", <<"c1">>)>>),
    ObjectText(<<Member("path", <<"7">>), Member("content", <<"c1">>),
                 Member("message", <<"m1">>)>>),
    ObjectText(<<Member("path", <<"">>), Member("content", <<"c1">>),
                 Member("message", <<"">>)>>),
    ObjectText(<<Member("path", <<"a">>), Member("content", <<"c3">>),
                 Member("message", <<"m3">>), Member("extra", <<"x">>)>>) }

Wrapped(t) == <<"Sure", "\n", "~~~">> \o t \o <<"~~~", "\n", "Enjoy">>

\* prose that carries brackets which close nothing before, open nothing after
WrappedNoisy(t) ==
  <<"Sure", "]", "}", "\n">> \o t \o <<"\n", "{", "[", "Enjoy">>

\* prose with a bracketed reference before the JSON
WrappedRef(t) == <<"Sure", "[", "7", "]", ":", "\n">> \o t \o <<"\n", "Enjoy">>

MalformedTexts ==
  { <<"Sorry">>,
    <<"7">>,
    <<" ", "m1", "\n">>,
    <<"[", "{", "path", ":", "a">>,
    <<"{", "Sorry", "}">>,
    <<"Sure", "[", "]", "Enjoy", "]">> }

\* an opener without a closer of its kind in front of a complete array
DanglingOpenerTexts == { <<"Sure", "{", "[", "]", "Enjoy">> }

ChangeTexts ==
  LET arrays == {ArrayText(ts) : ts \in SeqsUpTo(ChangeObjTexts, MaxChanges)}
      short == {ArrayText(ts) : ts \in SeqsUpTo(ChangeObjTexts, 1)}
  IN arrays \cup {Wrapped(t) : t \in arrays} \cup MalformedTexts
       \cup {WrappedNoisy(t) : t \in short} \cup {WrappedRef(t) : t \in short}
       \cup {ObjectText(<<Member("changes", ArrayText(<<>>))>>)}
       \cup DanglingOpenerTexts

\* the LLM text that carries exactly the change list cs
SameAnswerText(cs) ==
  ArrayText([n \in 1..Len(cs) |->
              ObjectText(<<Member("path", <<cs[n].path>>),
                           Member("content", <<cs[n].content>>),
                           Member("message", <<cs[n].message>>)>>)])

QualityItemText ==
  ObjectText(<<Member("type", <<"performance">>), Member("file", <<"a">>),
               Member("description", <<"d">>), Member("suggestion", <<"s">>),
               Member("severity", <<"low">>)>>)
BadQualityItemText ==
  ObjectText(<<Member("type", <<"performance">>), Member("file", <<"a">>),
               Member("description", <<"d">>), Member("suggestion", <<"s">>),
               Member("severity", <<"7">>)>>)
SecurityItemText ==
  ObjectText(<<Member("type", <<"xss">>), Member("file", <<"a">>),
               Member("description", <<"d">>), Member("severity", <<"critical">>),
               Member("remediation", <<"r">>)>>)
ImprovementItemText ==
  ObjectText(<<Member("file", <<"a">>), Member("description", <<"d">>),
               Member("suggestion", <<"s">>)>>)
TestingItemText ==
  ObjectText(<<Member("file", <<"a">>), Member("description", <<"d">>),
               Member("testCases", ArrayText(<<<<"t1">>, <<"t2">>>>))>>)

\* a review object text: ks lists the keys that are present, in order, and
\* items maps each key to the texts of its array's elements
ReviewText(ks, items) ==
  ObjectText([n \in 1..Len(ks) |-> Member(ks[n], ArrayText(items[ks[n]]))])

AllReviewKeys == <<"qualityIssues", "securityIssues", "improvements", "testingSuggestions">>

ReviewItemChoices ==
  [qualityIssues : {<<>>, <<QualityItemText>>, <<BadQualityItemText>>},
   securityIssues : {<<>>, <<SecurityItemText>>},
   improvements : {<<>>, <<ImprovementItemText>>},
   testingSuggestions : {<<>>, <<TestingItemText>>}]

\* AllReviewKeys without its n-th key
DropKey(n) == SubSeq(AllReviewKeys, 1, n - 1) \o SubSeq(AllReviewKeys, n + 1, 4)

ReviewTexts ==
  LET full == {ReviewText(AllReviewKeys, it) : it \in ReviewItemChoices}
      partial == {ReviewText(DropKey(n), EmptyReview) : n \in 1..4}
  IN full \cup {Wrapped(t) : t \in full} \cup partial \cup MalformedTexts
       \cup {ObjectText(<<Member("qualityIssues", <<"none">>)>>), ArrayText(<<>>)}

(***************************************************************************)
(* State of one invocation and of the collaborators it talks to.           *)
(***************************************************************************)
VARIABLES
  entry,      \* the exported operation the invocation starts at
  event,      \* github.context: eventName and payload (or the handler's argument)
  pc,         \* the await point the invocation stands at
  wf,         \* the workflow dispatched so far ("none" when none)
  calls,      \* the collaborator calls in the order the collaborators saw them
  files,      \* the target branch: path -> content (Absent when no such file)
  branchExists, \* whether refs/heads/ai-pr/<issue number> already exists
  changes,    \* the change list the generation call returned
  i,          \* index of the change the applier loop is at
  fileSha,    \* the hash the lookup of commitChange returned (NoSha when none)
  review,     \* the value reviewCode returned
  degraded,   \* whether the last LLM text was malformed (extraction or schema)
  thrown,     \* the error that left the handler ("none" when none)
  failed,     \* the message core.setFailed was called with ("none" when not called)
  others,     \* number of writes other writers made to the branch
  respContent, \* response.content while a parsing LLM method runs (NoText otherwise)
  parsed,     \* what extractJSONFromResponse made of it (NoParse otherwise)
  prNumber,   \* the number pulls.create returned ("none" before)
  securityAnalysis, \* the text analyzeSecurity returned ("none" before)
  timers,     \* per operation name: timers started and timers ended
  otherLog,   \* the writes of other writers: path, content, calls made before
  round,      \* 1, or 2 in a second invocation for the same comment
  firstCalls  \* the collaborator calls of the first invocation (round 2)

vars == <<entry, event, pc, wf, calls, files, branchExists, changes, i, fileSha,
          review, degraded, thrown, failed, others, respContent, parsed, prNumber,
          securityAnalysis, timers, otherLog, round, firstCalls>>

\* the empty path names the root of the repository, a directory
Paths == {"a", "b", ""}
Absent == "<absent>"
Dir == "<dir>"
NoSha == <<>>
\* the content hash the repository reports for a file: a function of its content
BlobSha(content) == <<"blob", content>>
\* Buffer.from(content).toString('base64'), and the repository's decoding of it
Base64(content) == <<"base64", content>>
FromBase64(b) == b[2]

\* issue.number, the pull request the comment is on, the number pulls.create returns
IssueNumber == "#1"
PullNumber == "#5"
NewPullNumber == "#9"
NewPullNumbers == {NewPullNumber, "#10"}

\* the operation names telemetry.startTimer is called with
TimedOps == {"handle_comment", "analyzeIssue", "generateCodeChanges",
             "generateChangesFromFeedback", "reviewCode", "analyzeSecurity"}
NoTimers == [op \in TimedOps |-> [started |-> 0, ended |-> 0]]
\* const endTimer = telemetry.startTimer(op): operation_start is captured
StartTimer(t, op) == [t EXCEPT ![op].started = @ + 1]
\* endTimer(): operation_end is captured
EndTimer(t, op) == [t EXCEPT ![op].ended = @ + 1]

\* the locals content and parsed of the parsing methods outside the methods that declare them
NoText == <<"<no text>">>
NoParse == [ok |-> FALSE, error |-> "<no parse>"]

\* ss.join('\n') for a sequence ss of strings
RECURSIVE JoinLines(_)
JoinLines(ss) ==
  IF Len(ss) = 0 THEN <<>>
  ELSE IF Len(ss) = 1 THEN ss[1]
  ELSE ss[1] \o <<"\n">> \o JoinLines(Tail(ss))

\* 'Applied requested changes:\n\n' + changes.map(c => '* ' + c.message).join('\n')
AppliedChangesBody(cs) ==
  <<"Applied requested changes:", "\n", "\n">>
    \o JoinLines([n \in 1..Len(cs) |-> <<"* ", cs[n].message>>])

\* a report that also lists the validated security issues
formatCodeReviewWithIssues(r, narrative) ==
  <<"## AI Code Review", "\n", "### Security Analysis", "\n", narrative, "\n">>
    \o JoinLines([n \in 1..Len(r.securityIssues) |->
                    <<"- **", r.securityIssues[n].file, "**", "\n",
                      r.securityIssues[n].description>>])

\* PRHandler.formatCodeReview(review, securityAnalysis): the markdown report
formatCodeReview(r, narrative) ==
  <<"## AI Code Review", "\n", "\n", "### Quality Issues", "\n">>
    \o JoinLines([n \in 1..Len(r.qualityIssues) |->
          <<"\n", "- **", r.qualityIssues[n].file, "** (", r.qualityIssues[n].type,
            ", Severity: ", r.qualityIssues[n].severity, ")", "\n",
            "  - ", r.qualityIssues[n].description, "\n",
            "  - Suggestion: ", r.qualityIssues[n].suggestion, "\n">>])
    \o <<"\n", "\n", "### Security Analysis", "\n", narrative, "\n", "\n",
         "### Suggested Improvements", "\n">>
    \o JoinLines([n \in 1..Len(r.improvements) |->
          <<"\n", "- **", r.improvements[n].file, "**", "\n",
            "  - ", r.improvements[n].description, "\n",
            "  - ", r.improvements[n].suggestion, "\n">>])
    \o <<"\n", "\n", "### Testing Suggestions", "\n">>
    \o JoinLines([n \in 1..Len(r.testingSuggestions) |->
          <<"\n", "- **", r.testingSuggestions[n].file, "**", "\n",
            "  - ", r.testingSuggestions[n].description, "\n",
            "  - Test Cases:", "\n", "    ">>
            \o JoinLines([m \in 1..Len(r.testingSuggestions[n].testCases) |->
                            <<"    - ", r.testingSuggestions[n].testCases[m].v>>])
            \o <<"\n">>])
    \o <<"\n", "\n", "---", "\n", "To request specific changes, use ", "(backtick)">>
    \o AI_CHANGE_COMMAND \o <<"(backtick)", " followed by your request.">>

\* comments the action itself has posted, arriving as issue_comment events
OwnComments ==
  { AppliedChangesBody(<<[path |-> "a", content |-> "c1", message |-> "m1"]>>),
    formatCodeReview(EmptyReview, "no findings"),
    <<"I've created a pull request", "#9">> }

Bodies ==
  { <<"/ai-issue-resolver", "-change", " ", "add", " ", "null", " ", "check">>,
    <<"/ai-issue-resolver", "-change", "\n", " ", "fix", " ",
      "/ai-issue-resolver", "-change", " ">>,
    <<"/ai-issue-resolver", "-change">>,
    <<"/ai-issue-resolver", "-review", " ", "please", " ", "check">>,
    <<"/ai-issue-resolver", "-review">>,
    <<"/axiotree-langchain-ai", "-change", " ", "fix">>,
    <<"/axiotree-langchain-ai", "-review">>,
    <<" ", "/ai-issue-resolver", "-change", " ", "fix">>,
    <<"hello">> } \cup OwnComments

LabelSets == {{}, {"other"}, {AI_PR_LABEL}, {"other", AI_PR_LABEL}}

Events ==
  [eventName : {"issues"}, hasIssue : {TRUE}, labels : LabelSets,
   hasComment : {FALSE}, body : {<<>>}]
  \cup [eventName : {"issue_comment"}, hasIssue : {TRUE}, labels : {{}},
        hasComment : {TRUE}, body : Bodies]
  \cup [eventName : {"push", "issues", "issue_comment"}, hasIssue : {FALSE},
        labels : {{}}, hasComment : {FALSE}, body : {<<>>}]

\* one collaborator call as the collaborator saw it, with its outcome res:
\* "ok", or the error it failed with
Call(op, k, path, sha, arg, content, res) ==
  [op |-> op, k |-> k, path |-> path, sha |-> sha, arg |-> arg,
   content |-> content, res |-> res]

\* a call without file arguments
Plain(op, arg, res) == Call(op, 0, "", NoSha, arg, <<>>, res)

Log(c) == calls' = Append(calls, c)

Init ==
  /\ entry \in {"run", "handleComment"}
  /\ event \in Events
  /\ entry = "handleComment" => event.eventName = "issue_comment" /\ event.hasComment
  /\ pc = CASE entry = "run" -> "run"
            [] entry = "handleComment" -> "getPR"
  /\ wf = "none"
  /\ calls = <<>>
  /\ files \in [Paths -> {Absent, "old", Dir}]
  /\ \A p \in Paths : files[p] = Dir <=> p = ""
  /\ branchExists \in BOOLEAN
  /\ branchExists => event.eventName = "issues"
  /\ changes = <<>>
  /\ i = 0
  /\ fileSha = NoSha
  /\ review = EmptyReview
  /\ degraded = FALSE
  /\ thrown = "none"
  /\ failed = "none"
  /\ others = 0
  /\ respContent = NoText
  /\ parsed = NoParse
  /\ prNumber = "none"
  /\ securityAnalysis = "none"
  /\ timers = NoTimers
  /\ otherLog = <<>>
  /\ round = 1
  /\ firstCalls = <<>>

(***************************************************************************)
(* An error leaves the running handler: it reaches the caller, and when    *)
(* the caller is run(), the catch block reports it with core.setFailed.    *)
(***************************************************************************)
\* a promise may reject with any value: an Error instance or something else
NonError == "NonErrorValue"
IsErrorInstance(e) == e # NonError
\* what a call to the LLM provider, to the GitHub REST API may fail with
\* (the REST client rejects with a RequestError, an Error instance)
LLMFailures == {"ProviderError", NonError}
RepoFailures == {"ServerError"}

\* a catch block that does not report the error
ThrowUnreported(e) ==
  /\ pc' = "done"
  /\ thrown' = e
  /\ failed' = failed

\* if (error instanceof Error) { core.setFailed(error.message); }
Throw(e) ==
  /\ pc' = "done"
  /\ thrown' = e
  /\ failed' = IF entry = "run" /\ IsErrorInstance(e) THEN e ELSE failed

\* catch (error) { ...; endTimer(); throw error; } of handleComment; handleIssue
\* has no timer and no catch
HandlerCatch(t) ==
  IF wf = "generatePR" THEN t ELSE EndTimer(t, "handle_comment")

\* the locals of the parsing methods are out of scope
ForgetText == respContent' = NoText /\ parsed' = NoParse

NoThrow == UNCHANGED <<thrown, failed>>

(***************************************************************************)
(* run(): the dispatcher.                                                  *)
(***************************************************************************)
\* a dispatcher that starts the workflow for any labelled issue
HasAnyLabel(labels) == labels # {}

\* issue.labels?.some(label => label.name === AI_PR_LABEL)
HasTriggerLabel(labels) == \E l \in labels : l = AI_PR_LABEL

\* comment.body.startsWith('/axiotree-langchain-ai')
PassesCommentGate(body) == StartsWith(body, RUN_COMMENT_PREFIX)

RunDispatch ==
  /\ pc = "run"
  /\ IF event.eventName = "issues" /\ event.hasIssue
     THEN IF HasTriggerLabel(event.labels)
          THEN pc' = "analyzeIssue" /\ wf' = "generatePR"
          ELSE pc' = "done" /\ wf' = wf
     ELSE IF event.eventName = "issue_comment" /\ event.hasComment
          THEN IF PassesCommentGate(event.body)
               THEN pc' = "getPR" /\ wf' = wf
               ELSE pc' = "done" /\ wf' = wf
          ELSE pc' = "done" /\ wf' = wf
  /\ ForgetText
  /\ UNCHANGED <<round, firstCalls, timers, otherLog, securityAnalysis>>
  /\ UNCHANGED <<prNumber, entry, event, calls, files, branchExists, changes, i, fileSha,
                 review, degraded, thrown, failed, others>>

(***************************************************************************)
(* The repository collaborator (GitHub contents API).                      *)
(***************************************************************************)
\* repos.getContent: the file with its hash, an array for a directory, or 404
LookupResult(cur) ==
  IF cur = Absent THEN [res |-> "NotFound"]
  ELSE IF cur = Dir THEN [res |-> "ok", isArray |-> TRUE]
  ELSE [res |-> "ok", isArray |-> FALSE, sha |-> BlobSha(cur)]

\* a repository that takes every write to a file, whatever hash it carries
WriteResultLastWins(cur, sha) == IF cur = Dir THEN "Conflict" ELSE "ok"

\* repos.createOrUpdateFileContents: a new file is created without a hash, an
\* existing file is updated only with its current hash
WriteResult(cur, sha) ==
  IF cur = Dir THEN "Conflict"
  ELSE IF cur = Absent THEN (IF sha = NoSha THEN "ok" ELSE "Conflict")
  ELSE IF sha = BlobSha(cur) THEN "ok" ELSE "Conflict"

\* a loop that walks the change list from its end
ChangeAtReversed(cs, n) == cs[Len(cs) + 1 - n]

\* the change the applier loop handles in its n-th iteration
ChangeAt(cs, n) == cs[n]

\* another writer (an overlapping invocation, a push) changes the file of
\* the current change between the lookup of commitChange and one of its
\* writes; its writes before the lookup are the initial values of files
OtherWriter ==
  /\ pc \in {"updateFile", "createFile"}
  /\ others < MaxOtherWrites
  /\ round = 1
  /\ \E p \in {ChangeAt(changes, i).path}, c \in {"other", Absent} :
       /\ files[p] # c
       /\ files[p] # Dir
       /\ files' = [files EXCEPT ![p] = c]
       /\ otherLog' = Append(otherLog,
                             [path |-> p, content |-> c, after |-> Len(calls)])
  /\ others' = others + 1
  /\ UNCHANGED <<round, firstCalls, timers, securityAnalysis>>
  /\ UNCHANGED <<respContent, parsed, prNumber, entry, event, pc, wf, calls, branchExists, changes, i, fileSha,
                 review, degraded, thrown, failed>>

(***************************************************************************)
(* GitHubService.commitChange, one action per awaited call.                *)
(***************************************************************************)
\* a commit message without the prefix of the Apply-Feedback workflow
CommitMessageVerbatim(w, change) == <<change.message>>

\* message: change.message (Generate-PR), `AI Update: ${change.message}` (Apply-Feedback)
CommitMessage(w, change) ==
  IF w = "applyFeedback" THEN <<"AI Update: ", change.message>>
  ELSE <<change.message>>

\* an update that forgets the hash the lookup returned
FileShaDropped(currentFile) == NoSha

\* const fileSha = Array.isArray(currentFile) ? undefined : currentFile.sha
FileShaOf(currentFile) ==
  IF currentFile.isArray THEN NoSha ELSE currentFile.sha

\* a handleIssue that goes from the loop straight to the issue comment
AfterLoopSkipsPR(w) == IF w = "generatePR" THEN "issueComment" ELSE "addComment"

\* where the workflow continues when the loop over the changes is over
AfterLoop(w) == IF w = "generatePR" THEN "createPR" ELSE "addComment"

\* commitChange returned: the loop moves to the next change or ends
CommitReturns ==
  IF i < Len(changes)
  THEN pc' = "getContent" /\ i' = i + 1
  ELSE pc' = AfterLoop(wf) /\ i' = i

\* try { getContent ... } : an error of the lookup is caught by the catch block
GetContent ==
  /\ pc = "getContent"
  /\ LET c == ChangeAt(changes, i) IN
     \E r \in {LookupResult(files[c.path]), [res |-> "ServerError"]} :
       /\ IF r.res = "ok"
          THEN /\ fileSha' = FileShaOf(r)
               /\ pc' = "updateFile"
               /\ Log(Call("getContent", i, c.path,
                           IF r.isArray THEN NoSha ELSE r.sha, <<>>, <<>>, "ok"))
          ELSE /\ fileSha' = NoSha
               /\ pc' = "createFile"
               /\ Log(Call("getContent", i, c.path, NoSha, <<>>, <<>>, r.res))
  /\ ForgetText
  /\ UNCHANGED <<round, firstCalls, timers, otherLog, securityAnalysis>>
  /\ UNCHANGED <<prNumber, entry, event, wf, files, branchExists, changes, i, review,
                 degraded, thrown, failed, others>>

\* ... createOrUpdateFileContents({ sha: fileSha }) } : still inside the try
\* block, so an error of this write is caught by the same catch block
UpdateFile ==
  /\ pc = "updateFile"
  /\ LET c == ChangeAt(changes, i) IN
     \E res \in {WriteResult(files[c.path], fileSha), "ServerError"} :
       /\ Log(Call("createOrUpdateFileContents", i, c.path, fileSha,
                   CommitMessage(wf, c), Base64(c.content), res))
       /\ IF res = "ok"
          THEN /\ files' = [files EXCEPT ![c.path] = FromBase64(Base64(c.content))]
               /\ CommitReturns
          ELSE /\ files' = files
               /\ pc' = "createFile"
               /\ i' = i
  /\ NoThrow
  /\ ForgetText
  /\ UNCHANGED <<round, firstCalls, timers, otherLog, securityAnalysis>>
  /\ UNCHANGED <<prNumber, entry, event, wf, branchExists, changes, fileSha, review,
                 degraded, others>>

\* catch (error) { createOrUpdateFileContents without sha } : an error of this
\* write leaves commitChange
CreateFile ==
  /\ pc = "createFile"
  /\ LET c == ChangeAt(changes, i) IN
     \E res \in {WriteResult(files[c.path], NoSha)} \cup RepoFailures :
       /\ Log(Call("createOrUpdateFileContents", i, c.path, NoSha,
                   CommitMessage(wf, c), Base64(c.content), res))
       /\ IF res = "ok"
          THEN /\ files' = [files EXCEPT ![c.path] = FromBase64(Base64(c.content))]
               /\ CommitReturns
               /\ NoThrow
               /\ timers' = timers
          ELSE /\ files' = files
               /\ i' = i
               /\ Throw(res)
               /\ timers' = HandlerCatch(timers)
  /\ ForgetText
  /\ UNCHANGED <<round, firstCalls, otherLog, securityAnalysis>>
  /\ UNCHANGED <<prNumber, entry, event, wf, branchExists, changes, fileSha, review,
                 degraded, others>>

(***************************************************************************)
(* IssueHandler.handleIssue (Generate-PR workflow).                        *)
(***************************************************************************)
\* whether extraction or change-list validation of an LLM text fails
MalformedChanges(content) ==
  LET e == extractJSONFromResponse(content)
  IN ~e.ok \/ ~codeChangeSchema(e.val).ok

\* whether extraction or review validation of an LLM text fails
MalformedReview(content) ==
  LET e == extractJSONFromResponse(content)
  IN ~e.ok \/ ~reviewSchema(e.val).ok

\* a handler that returns at once when the change list is empty
EnterLoopOrReturn(cs) ==
  IF Len(cs) > 0
  THEN pc' = "getContent" /\ i' = 1
  ELSE pc' = "done" /\ i' = 0

\* the loop over the changes starts, or is skipped for the empty list
EnterLoop(cs) ==
  IF Len(cs) > 0
  THEN pc' = "getContent" /\ i' = 1
  ELSE pc' = AfterLoop(wf) /\ i' = 0

AnalyzeIssue ==
  /\ pc = "analyzeIssue"
  /\ \E res \in {"ok"} \cup LLMFailures :
       /\ Log(Plain("analyzeIssue", <<>>, res))
       /\ IF res = "ok" THEN pc' = "generateCodeChanges" /\ NoThrow
          ELSE Throw(res)
  /\ timers' = EndTimer(StartTimer(timers, "analyzeIssue"), "analyzeIssue")
  /\ ForgetText
  /\ UNCHANGED <<round, firstCalls, otherLog, securityAnalysis>>
  /\ UNCHANGED <<prNumber, entry, event, wf, files, branchExists, changes, i, fileSha,
                 review, degraded, others>>

GenerateCodeChanges ==
  /\ pc = "generateCodeChanges"
  /\ \/ \E e \in LLMFailures :
          /\ Log(Plain("generateCodeChanges", <<>>, e))
          /\ Throw(e)
          /\ timers' = EndTimer(StartTimer(timers, "generateCodeChanges"),
                                "generateCodeChanges")
          /\ ForgetText
          /\ UNCHANGED <<changes, degraded>>
     \/ \E text \in ChangeTexts :
          LET r == ChangesOrEmpty(text) IN
          /\ Log(Plain("generateCodeChanges", <<>>, "ok"))
          /\ respContent' = text
          /\ parsed' = extractJSONFromResponse(text)
          /\ degraded' = MalformedChanges(text)
          /\ timers' = IF MalformedChanges(text)
                       THEN StartTimer(timers, "generateCodeChanges")
                       ELSE EndTimer(StartTimer(timers, "generateCodeChanges"),
                                     "generateCodeChanges")
          /\ IF r.threw
             THEN Throw("ParseError") /\ changes' = changes
             ELSE pc' = "getRef" /\ changes' = r.val /\ NoThrow
  /\ UNCHANGED <<round, firstCalls, otherLog, securityAnalysis>>
  /\ UNCHANGED <<prNumber, entry, event, wf, files, branchExists, i, fileSha, review, others>>

\* createBranch: git.getRef('heads/main')
GetRef ==
  /\ pc = "getRef"
  /\ \E res \in {"ok"} \cup RepoFailures :
       /\ Log(Plain("getRef", <<"heads/main">>, res))
       /\ IF res = "ok" THEN pc' = "createRef" /\ NoThrow ELSE Throw(res)
  /\ ForgetText
  /\ UNCHANGED <<round, firstCalls, timers, otherLog, securityAnalysis>>
  /\ UNCHANGED <<prNumber, entry, event, wf, files, branchExists, changes, i, fileSha,
                 review, degraded, others>>

\* a createRef that succeeds on an existing ref
CreateRefResultReuse(exists) == "ok"

\* git.createRef as createBranch uses it: the ref is created once, a second
\* createRef for it is rejected
CreateRefResult(exists) == IF exists THEN "Conflict" ELSE "ok"

\* createBranch: git.createRef('refs/heads/ai-pr/<issue number>')
CreateRef ==
  /\ pc = "createRef"
  /\ \E res \in {CreateRefResult(branchExists)} \cup RepoFailures :
       /\ Log(Plain("createRef", <<"refs/heads/ai-pr/", IssueNumber>>, res))
       /\ IF res = "ok"
          THEN branchExists' = TRUE /\ EnterLoop(changes) /\ NoThrow
          ELSE branchExists' = branchExists /\ i' = i /\ Throw(res)
  /\ ForgetText
  /\ UNCHANGED <<round, firstCalls, timers, otherLog, securityAnalysis>>
  /\ UNCHANGED <<prNumber, entry, event, wf, files, changes, fileSha, review, degraded, others>>

\* createPR: pulls.create; the repository numbers the new pull request
CreatePR ==
  /\ pc = "createPR"
  /\ \E res \in {"ok"} \cup RepoFailures, n \in NewPullNumbers :
       /\ Log(Plain("createPullRequest", <<"ai-pr/", IssueNumber>>, res))
       /\ IF res = "ok"
          THEN pc' = "addLabels" /\ prNumber' = n /\ NoThrow
          ELSE prNumber' = prNumber /\ Throw(res)
  /\ ForgetText
  /\ UNCHANGED <<round, firstCalls, timers, otherLog, securityAnalysis>>
  /\ UNCHANGED <<entry, event, wf, files, branchExists, changes, i, fileSha,
                 review, degraded, others>>

\* createPR: issues.addLabels (the label list is never empty)
AddLabels ==
  /\ pc = "addLabels"
  /\ \E res \in {"ok"} \cup RepoFailures :
       /\ Log(Plain("addLabels", <<prNumber, "ai-issue-resolver-pr">>, res))
       /\ IF res = "ok" THEN pc' = "issueComment" /\ NoThrow ELSE Throw(res)
  /\ ForgetText
  /\ UNCHANGED <<round, firstCalls, timers, otherLog, securityAnalysis>>
  /\ UNCHANGED <<prNumber, entry, event, wf, files, branchExists, changes, i, fileSha,
                 review, degraded, others>>

\* a comment that links the issue itself instead of the pull request
PRLinkToIssue(issue, pr) == <<issue, "I've created a pull request", issue>>

\* issue_number: issue.number, body: the link to pull/${prNumber}
PRLinkComment(issue, pr) == <<issue, "I've created a pull request", pr>>

\* addComment on the originating issue, with the link to the new pull request
IssueComment ==
  /\ pc = "issueComment"
  /\ \E res \in {"ok"} \cup RepoFailures :
       /\ Log(Plain("createComment", PRLinkComment(IssueNumber, prNumber), res))
       /\ IF res = "ok" THEN pc' = "done" /\ NoThrow ELSE Throw(res)
  /\ ForgetText
  /\ UNCHANGED <<round, firstCalls, timers, otherLog, securityAnalysis>>
  /\ UNCHANGED <<prNumber, entry, event, wf, files, branchExists, changes, i, fileSha,
                 review, degraded, others>>

(***************************************************************************)
(* PRHandler.handleComment (Apply-Feedback and Review workflows).          *)
(***************************************************************************)
\* the remainder of the body without the trim()
RequestedChangesUntrimmed(body) == Replace(body, AI_CHANGE_COMMAND, <<>>)

\* comment.body.replace(AI_CHANGE_COMMAND, '').trim()
RequestedChanges(body) == Trim(Replace(body, AI_CHANGE_COMMAND, <<>>))

\* a dispatch on the command occurring anywhere in the body
CommentBranchIncludes(body) ==
  IF \E k \in 0..(Len(body) - Len(AI_CHANGE_COMMAND)) :
       SubSeq(body, k + 1, k + Len(AI_CHANGE_COMMAND)) = AI_CHANGE_COMMAND
  THEN "applyFeedback"
  ELSE IF \E k \in 0..(Len(body) - Len(AI_REVIEW_COMMAND)) :
       SubSeq(body, k + 1, k + Len(AI_REVIEW_COMMAND)) = AI_REVIEW_COMMAND
  THEN "review"
  ELSE "none"

\* the branch of handleComment a comment body selects
CommentBranch(body) ==
  IF StartsWith(body, AI_CHANGE_COMMAND) THEN "applyFeedback"
  ELSE IF StartsWith(body, AI_REVIEW_COMMAND) THEN "review"
  ELSE "none"

\* getPR: pulls.get; `if (!pr) return` ends the handler silently
GetPR ==
  /\ pc = "getPR"
  /\ \E res \in {"ok", "null", "NotFound"} \cup RepoFailures :
       /\ Log(Plain("getPullRequest", <<PullNumber>>, res))
       /\ IF res = "ok" THEN pc' = "getPRFiles" /\ NoThrow
          ELSE IF res = "null" THEN pc' = "done" /\ NoThrow
          ELSE Throw(res)
       /\ timers' = IF res \in {"ok", "null"}
                    THEN StartTimer(timers, "handle_comment")
                    ELSE HandlerCatch(StartTimer(timers, "handle_comment"))
  /\ ForgetText
  /\ UNCHANGED <<round, firstCalls, otherLog, securityAnalysis>>
  /\ UNCHANGED <<prNumber, entry, event, wf, files, branchExists, changes, i, fileSha,
                 review, degraded, others>>

\* getPRFiles: pulls.listFiles, then the branch on the command token
GetPRFiles ==
  /\ pc = "getPRFiles"
  /\ \E res \in {"ok"} \cup RepoFailures :
       /\ Log(Plain("listPRFiles", <<PullNumber>>, res))
       /\ IF res = "ok"
          THEN /\ wf' = CommentBranch(event.body)
               /\ pc' = CASE CommentBranch(event.body) = "applyFeedback"
                                -> "generateChangesFromFeedback"
                           [] CommentBranch(event.body) = "review" -> "reviewCode"
                           [] OTHER -> "done"
               /\ timers' = IF CommentBranch(event.body) = "none"
                            THEN EndTimer(timers, "handle_comment")
                            ELSE timers
               /\ NoThrow
          ELSE wf' = wf /\ Throw(res) /\ timers' = HandlerCatch(timers)
  /\ ForgetText
  /\ UNCHANGED <<round, firstCalls, otherLog, securityAnalysis>>
  /\ UNCHANGED <<prNumber, entry, event, files, branchExists, changes, i, fileSha,
                 review, degraded, others>>

GenerateChangesFromFeedback ==
  /\ pc = "generateChangesFromFeedback"
  /\ \/ \E e \in LLMFailures :
          /\ Log(Plain("generateChangesFromFeedback",
                       RequestedChanges(event.body), e))
          /\ Throw(e)
          /\ timers' = HandlerCatch(StartTimer(timers, "generateChangesFromFeedback"))
          /\ ForgetText
          /\ UNCHANGED <<changes, degraded, i>>
     \/ \E text \in (IF round = 2 THEN {SameAnswerText(changes)} ELSE ChangeTexts) :
          LET r == ChangesOrEmpty(text) IN
          /\ Log(Plain("generateChangesFromFeedback",
                       RequestedChanges(event.body), "ok"))
          /\ respContent' = text
          /\ parsed' = extractJSONFromResponse(text)
          /\ degraded' = MalformedChanges(text)
          /\ timers' = IF MalformedChanges(text)
                       THEN StartTimer(timers, "generateChangesFromFeedback")
                       ELSE EndTimer(StartTimer(timers, "generateChangesFromFeedback"),
                                     "generateChangesFromFeedback")
          /\ round = 2 => r.val = changes
          /\ IF r.threw
             THEN Throw("ParseError") /\ UNCHANGED <<changes, i>>
             ELSE changes' = r.val /\ EnterLoop(r.val) /\ NoThrow
  /\ UNCHANGED <<round, firstCalls, otherLog, securityAnalysis>>
  /\ UNCHANGED <<prNumber, entry, event, wf, files, branchExists, fileSha, review, others>>

ReviewCode ==
  /\ pc = "reviewCode"
  /\ \/ \E e \in LLMFailures :
          /\ Log(Plain("reviewCode", <<>>, e))
          /\ Throw(e)
          /\ timers' = HandlerCatch(StartTimer(timers, "reviewCode"))
          /\ ForgetText
          /\ UNCHANGED <<review, degraded>>
     \/ \E text \in ReviewTexts :
          LET r == ReviewOrEmpty(text) IN
          /\ Log(Plain("reviewCode", <<>>, "ok"))
          /\ respContent' = text
          /\ parsed' = extractJSONFromResponse(text)
          /\ degraded' = MalformedReview(text)
          /\ timers' = EndTimer(StartTimer(timers, "reviewCode"), "reviewCode")
          /\ IF r.threw
             THEN Throw("ParseError") /\ review' = review
             ELSE pc' = "analyzeSecurity" /\ review' = r.val /\ NoThrow
  /\ UNCHANGED <<round, firstCalls, otherLog, securityAnalysis>>
  /\ UNCHANGED <<prNumber, entry, event, wf, files, branchExists, changes, i, fileSha, others>>

\* the texts analyzeSecurity returns
SecurityNarratives == {"no findings", "one finding"}

AnalyzeSecurity ==
  /\ pc = "analyzeSecurity"
  /\ \E res \in {"ok"} \cup LLMFailures, text \in SecurityNarratives :
       LET t == EndTimer(StartTimer(timers, "analyzeSecurity"), "analyzeSecurity") IN
       /\ Log(Plain("analyzeSecurity", <<>>, res))
       /\ IF res = "ok"
          THEN /\ pc' = "addComment"
               /\ securityAnalysis' = text
               /\ timers' = t
               /\ NoThrow
          ELSE /\ securityAnalysis' = securityAnalysis
               /\ timers' = HandlerCatch(t)
               /\ Throw(res)
  /\ ForgetText
  /\ UNCHANGED <<round, firstCalls, otherLog>>
  /\ UNCHANGED <<prNumber, entry, event, wf, files, branchExists, changes, i, fileSha,
                 review, degraded, others>>

\* the body of the comment handleComment posts on the pull request
CommentBody(w) ==
  IF w = "applyFeedback"
  THEN AppliedChangesBody(changes)
  ELSE formatCodeReview(review, securityAnalysis)

\* addComment on the pull request: the confirmation or the review report
AddComment ==
  /\ pc = "addComment"
  /\ \E res \in {"ok"} \cup RepoFailures :
       /\ Log(Plain("createComment", <<PullNumber>> \o CommentBody(wf), res))
       /\ IF res = "ok" THEN pc' = "done" /\ NoThrow ELSE Throw(res)
  /\ timers' = EndTimer(timers, "handle_comment")
  /\ ForgetText
  /\ UNCHANGED <<round, firstCalls, otherLog, securityAnalysis>>
  /\ UNCHANGED <<prNumber, entry, event, wf, files, branchExists, changes, i, fileSha,
                 review, degraded, others>>

(***************************************************************************)
(* The specification.                                                      *)
(***************************************************************************)
\* the same change comment is delivered a second time after the first
\* invocation applied its change list: a new run of the action, with fresh
\* telemetry, on the branch as the first run left it; the LLM answers with
\* the same change list and no other writer touches the branch
Reinvoke ==
  /\ round = 1
  /\ pc = "done"
  /\ wf = "applyFeedback"
  /\ thrown = "none"
  /\ otherLog = <<>>
  /\ Len(changes) > 0
  /\ round' = 2
  /\ firstCalls' = calls
  /\ calls' = <<>>
  /\ pc' = IF entry = "run" THEN "run" ELSE "getPR"
  /\ wf' = "none"
  /\ i' = 0
  /\ fileSha' = NoSha
  /\ degraded' = FALSE
  /\ timers' = NoTimers
  /\ ForgetText
  /\ UNCHANGED <<entry, event, files, branchExists, changes, review, thrown, failed,
                 others, prNumber, securityAnalysis, otherLog>>

Next ==
  \/ Reinvoke
  \/ RunDispatch
  \/ AnalyzeIssue
  \/ GenerateCodeChanges
  \/ GetRef
  \/ CreateRef
  \/ GetContent
  \/ UpdateFile
  \/ CreateFile
  \/ OtherWriter
  \/ CreatePR
  \/ AddLabels
  \/ IssueComment
  \/ GetPR
  \/ GetPRFiles
  \/ GenerateChangesFromFeedback
  \/ ReviewCode
  \/ AnalyzeSecurity
  \/ AddComment

Spec == Init /\ [][Next]_vars

(***************************************************************************)
(* Properties of the change-set applier.                                   *)
(***************************************************************************)
IsLookup(c) == c.op = "getContent"
IsWrite(c) == c.op = "createOrUpdateFileContents"
Positions == 1..Len(calls)
\* the changes whose write has succeeded, in the order the writes were seen
DoneWrites ==
  SelectSeq(calls, LAMBDA c : IsWrite(c) /\ c.res = "ok")

\* C1: the applier loops of handleComment and handleIssue take the changes in
\* input order and one at a time: every lookup and write is for the change
\* at the loop index, the indices never go back, the completed writes are
\* the changes 1..m in order (all of them when the loop has ended), and the
\* lookup of change k+1 is issued only after the write of change k completed.
C1_ApplierInOrder ==
  LET done == DoneWrites IN
  /\ \A j \in Positions : IsLookup(calls[j]) \/ IsWrite(calls[j]) =>
        /\ calls[j].k \in 1..Len(changes)
        /\ calls[j].path = changes[calls[j].k].path
        /\ IsWrite(calls[j]) => calls[j].content = Base64(changes[calls[j].k].content)
  /\ \A j2 \in Positions : IsLookup(calls[j2]) \/ IsWrite(calls[j2]) =>
        \A j1 \in 1..(j2 - 1) : IsLookup(calls[j1]) \/ IsWrite(calls[j1]) =>
          calls[j1].k <= calls[j2].k
  /\ \A n \in 1..Len(done) : done[n].k = n
  /\ \A j \in Positions : IsLookup(calls[j]) =>
        /\ \A j0 \in 1..(j - 1) : IsLookup(calls[j0]) => calls[j0].k < calls[j].k
        /\ calls[j].k > 1 =>
              \E j0 \in 1..(j - 1) :
                IsWrite(calls[j0]) /\ calls[j0].k = calls[j].k - 1 /\ calls[j0].res = "ok"
  /\ pc \in {"createPR", "addComment"} /\ wf \in {"generatePR", "applyFeedback"} =>
        /\ Len(done) = Len(changes)
        /\ \A n \in 1..Len(changes) : done[n].path = changes[n].path

\* an Apply-Feedback run has committed two changes to different paths
C1_Witness ==
  /\ wf = "applyFeedback"
  /\ pc = "done"
  /\ thrown = "none"
  /\ Len(changes) >= 2
  /\ changes[1].path # changes[2].path
  /\ Len(DoneWrites) = Len(changes)

\* C2: in commitChange the write that follows a lookup is for the same path
\* and carries exactly the hash the lookup returned; after a lookup that
\* failed with NotFound the write carries no hash.
C2_WriteCarriesLookupHash ==
  \A j \in Positions : IsLookup(calls[j]) /\ j < Len(calls) =>
    /\ IsWrite(calls[j + 1])
    /\ calls[j + 1].k = calls[j].k
    /\ calls[j + 1].path = calls[j].path
    /\ calls[j].res = "ok" => calls[j + 1].sha = calls[j].sha
    /\ calls[j].res = "NotFound" => calls[j + 1].sha = NoSha

\* one run has updated an existing file with its hash and created a new file
C2_Witness ==
  /\ \E j \in Positions :
        /\ IsLookup(calls[j]) /\ calls[j].res = "ok" /\ calls[j].sha # NoSha
        /\ j < Len(calls) /\ calls[j + 1].sha = calls[j].sha /\ calls[j + 1].res = "ok"
  /\ \E j \in Positions :
        /\ IsLookup(calls[j]) /\ calls[j].res = "NotFound"
        /\ j < Len(calls) /\ calls[j + 1].sha = NoSha /\ calls[j + 1].res = "ok"

\* C3: when the update write of commitChange fails with a hash mismatch,
\* commitChange issues no further write for that change.
C3_NoWriteAfterHashMismatch ==
  \A j \in Positions :
    IsWrite(calls[j]) /\ calls[j].sha # NoSha /\ calls[j].res = "Conflict" =>
      \A j2 \in (j + 1)..Len(calls) :
        ~(IsWrite(calls[j2]) /\ calls[j2].k = calls[j].k)

\* C4: commitChange issues a write without a hash only after a lookup that
\* reported the file absent, and after a lookup that failed for another
\* reason it issues no write for that change.
C4_CreateOnlyWhenAbsent ==
  \A j \in Positions : IsWrite(calls[j]) =>
    /\ calls[j].sha = NoSha =>
          \E j0 \in 1..(j - 1) :
            IsLookup(calls[j0]) /\ calls[j0].k = calls[j].k /\ calls[j0].res = "NotFound"
    /\ \A j0 \in 1..(j - 1) :
          IsLookup(calls[j0]) /\ calls[j0].k = calls[j].k => calls[j0].res # "ServerError"

(***************************************************************************)
(* Properties of the dispatcher.                                           *)
(***************************************************************************)
HasCall(op) == \E j \in Positions : calls[j].op = op
CountCalls(op) == Cardinality({j \in Positions : calls[j].op = op})
IsCommentEvent == event.eventName = "issue_comment" /\ event.hasComment
IsIssuesEvent == event.eventName = "issues" /\ event.hasIssue

\* C5: for an issue_comment event whose body starts with AI_REVIEW_COMMAND,
\* a run() that ends without a failure has run the Review workflow
\* (reviewCode, analyzeSecurity, one comment) and no part of Apply-Feedback.
C5_ReviewCommandRunsReview ==
  /\ entry = "run"
  /\ IsCommentEvent
  /\ StartsWith(event.body, AI_REVIEW_COMMAND)
  /\ pc = "done"
  /\ failed = "none"
  => /\ HasCall("reviewCode")
     /\ HasCall("analyzeSecurity")
     /\ CountCalls("createComment") = 1
     /\ ~HasCall("generateChangesFromFeedback")
     /\ ~HasCall("createOrUpdateFileContents")

\* s with its leading and trailing whitespace removed is t
IsTrimOf(t, s) ==
  \E a, b \in 0..Len(s) :
    /\ a + b <= Len(s)
    /\ t = SubSeq(s, a + 1, Len(s) - b)
    /\ \A n \in 1..a : s[n] \in WhiteSpace
    /\ \A n \in (Len(s) - b + 1)..Len(s) : s[n] \in WhiteSpace
    /\ t # <<>> => t[1] \notin WhiteSpace /\ t[Len(t)] \notin WhiteSpace

\* C6: for a comment body that starts with the change-command token,
\* handleComment calls generateChangesFromFeedback with the body without its
\* leading command token, stripped of leading and trailing whitespace; the
\* body '/ai-issue-resolver-change add null check' gives 'add null check'.
C6_FeedbackIsTrimmedRemainder ==
  \A j \in Positions : calls[j].op = "generateChangesFromFeedback" =>
    /\ StartsWith(event.body, AI_CHANGE_COMMAND)
    /\ IsTrimOf(calls[j].arg,
                SubSeq(event.body, Len(AI_CHANGE_COMMAND) + 1, Len(event.body)))
    /\ event.body = <<"/ai-issue-resolver", "-change", " ", "add", " ", "null", " ", "check">>
         => calls[j].arg = <<"add", " ", "null", " ", "check">>

\* the generation call was made for a body with whitespace around the feedback
C6_Witness ==
  /\ event.body = <<"/ai-issue-resolver", "-change", "\n", " ", "fix", " ",
                    "/ai-issue-resolver", "-change", " ">>
  /\ \E j \in Positions :
        /\ calls[j].op = "generateChangesFromFeedback"
        /\ calls[j].arg = <<"fix", " ", "/ai-issue-resolver", "-change">>

\* C7: for an issues event without the trigger label run() invokes no
\* workflow: no LLM call, no repository call, and the run is not failed.
C7_NoLabelNoWorkflow ==
  entry = "run" /\ IsIssuesEvent /\ AI_PR_LABEL \notin event.labels =>
    /\ calls = <<>>
    /\ wf = "none"
    /\ failed = "none"
    /\ pc \in {"run", "done"}

\* run() has returned for an issue labelled only "other"
C7_Witness ==
  /\ entry = "run"
  /\ IsIssuesEvent
  /\ event.labels = {"other"}
  /\ pc = "done"

\* C8: an event that matches none of the three dispatch rules is a no-op
\* for run(): no LLM call, no repository call, no failed status.
C8_UnmatchedEventIsNoOp ==
  /\ entry = "run"
  /\ ~(IsIssuesEvent /\ AI_PR_LABEL \in event.labels)
  /\ ~(IsCommentEvent /\ StartsWith(event.body, AI_CHANGE_COMMAND))
  /\ ~(IsCommentEvent /\ StartsWith(event.body, AI_REVIEW_COMMAND))
  => calls = <<>> /\ failed = "none"

(***************************************************************************)
(* Properties of the degrade-to-empty policy.                              *)
(***************************************************************************)
LastCall == calls[Len(calls)]

\* C9: when the LLM text of generateCodeChanges or generateChangesFromFeedback
\* cannot be extracted or fails the schema, the call returns the empty
\* change list and no error reaches the workflow, which goes on.
C9_MalformedChangesDegradeToEmpty ==
  /\ wf \in {"generatePR", "applyFeedback"} /\ degraded =>
        /\ changes = <<>>
        /\ ~HasCall("createOrUpdateFileContents")
        /\ thrown # "ParseError"
  /\ /\ calls # <<>>
     /\ LastCall.op \in {"generateCodeChanges", "generateChangesFromFeedback"}
     /\ LastCall.res = "ok"
     /\ degraded
     => /\ thrown = "none"
        /\ pc = IF wf = "generatePR" THEN "getRef" ELSE "addComment"

\* a generation call has just returned from a malformed LLM text
C9_Witness ==
  /\ calls # <<>>
  /\ LastCall.op \in {"generateCodeChanges", "generateChangesFromFeedback"}
  /\ LastCall.res = "ok"
  /\ degraded
  /\ changes = <<>>

\* C10: every value reviewCode returns has the four arrays; when extraction
\* or validation of the LLM text fails it is the record of four empty
\* arrays, and no error leaves reviewCode.
C10_ReviewAlwaysHasFourArrays ==
  /\ DOMAIN review = ReviewKeys
  /\ \A k \in ReviewKeys : DOMAIN review[k] = 1..Len(review[k])
  /\ wf = "review" /\ degraded =>
        /\ review = EmptyReview
        /\ thrown # "ParseError"
  /\ calls # <<>> /\ LastCall.op = "reviewCode" /\ LastCall.res = "ok" =>
        thrown = "none" /\ pc = "analyzeSecurity"

\* reviewCode has just returned from an LLM text that fails the schema
C10_Witness ==
  /\ wf = "review"
  /\ calls # <<>>
  /\ LastCall.op = "reviewCode"
  /\ degraded
  /\ review = EmptyReview
  /\ pc = "analyzeSecurity"

(***************************************************************************)
(* Properties of failure handling.                                         *)
(***************************************************************************)
LLMOps == {"analyzeIssue", "generateCodeChanges", "generateChangesFromFeedback",
           "reviewCode", "analyzeSecurity"}

\* C11: in the Apply-Feedback and Review workflows a malformed LLM text
\* does not abort the invocation: no write is ever issued, no parse error
\* leaves the handler, an error that does leave it comes from a collaborator
\* call that failed, and a handler that returned has posted exactly one
\* comment, on the pull request, with no failed status set.
C11_MalformedDoesNotAbort ==
  wf \in {"applyFeedback", "review"} /\ degraded =>
    /\ ~HasCall("createOrUpdateFileContents")
    /\ CountCalls("createComment") <= 1
    /\ thrown # "ParseError"
    /\ thrown # "none" => LastCall.res = thrown /\ LastCall.res # "ok"
    /\ pc = "done" /\ thrown = "none" =>
          /\ CountCalls("createComment") = 1
          /\ LastCall.op = "createComment"
          /\ LastCall.arg[1] = PullNumber
          /\ failed = "none"

\* an Apply-Feedback run has ended normally after a malformed LLM text
C11_Witness ==
  /\ wf = "applyFeedback"
  /\ degraded
  /\ pc = "done"
  /\ thrown = "none"
  /\ CountCalls("createComment") = 1

\* C12: a provider error of any of the five LLM calls leaves the handler;
\* run() reports it with core.setFailed and its message, and the failed call
\* is the last collaborator call of the invocation.
C12_LLMFailurePropagates ==
  \A j \in Positions :
    calls[j].op \in LLMOps /\ calls[j].res = "ProviderError" =>
      /\ j = Len(calls)
      /\ pc = "done"
      /\ thrown = "ProviderError"
      /\ entry = "run" => failed = "ProviderError"

\* run() has reported the provider error of generateCodeChanges
C12_Witness ==
  /\ entry = "run"
  /\ calls # <<>>
  /\ LastCall.op = "generateCodeChanges"
  /\ LastCall.res = "ProviderError"
  /\ failed = "ProviderError"

\* C13: for every value thrown out of a workflow inside run(), an Error
\* instance or not, run() sets the failed status with it.
C13_EveryThrownValueFails ==
  entry = "run" /\ thrown # "none" => failed = thrown

(***************************************************************************)
(* Properties of change-list and review validation.                        *)
(***************************************************************************)
\* C14: every change that reaches commitChange (a lookup or a write is issued
\* for it) has a non-empty path and a non-empty message.
C14_NoEmptyPathOrMessage ==
  \A j \in Positions : IsLookup(calls[j]) \/ IsWrite(calls[j]) =>
    /\ calls[j].path # ""
    /\ changes[calls[j].k].message # ""

CodeChangeKeys == {"path", "content", "message"}

\* a change-list generation has just parsed the LLM text respContent
JustGenerated ==
  /\ respContent # NoText
  /\ calls # <<>>
  /\ LastCall.op \in {"generateCodeChanges", "generateChangesFromFeedback"}

\* the extracted value is an array of objects
ExtractedObjects ==
  /\ parsed.ok
  /\ IsArr(parsed.val)
  /\ \A n \in 1..Len(parsed.val.v) : IsObj(parsed.val.v[n])

\* C15 as stated: an extracted array of objects that each carry path, content
\* and message is returned unchanged (same elements, same fields, same
\* order); if an element omits one of them the workflow gets the empty list.
C15_AllOrNothingUnchanged ==
  JustGenerated /\ ExtractedObjects =>
    LET arr == parsed.val.v IN
    /\ (\A n \in 1..Len(arr) : CodeChangeKeys \subseteq DOMAIN arr[n].v) =>
          /\ Len(changes) = Len(arr)
          /\ \A n \in 1..Len(arr) :
                /\ DOMAIN arr[n].v = DOMAIN changes[n]
                /\ \A k \in DOMAIN changes[n] : arr[n].v[k] = JStr(changes[n][k])
    /\ (\E n \in 1..Len(arr) : ~(CodeChangeKeys \subseteq DOMAIN arr[n].v)) =>
          changes = <<>>

\* C15: an extracted array of objects that each carry path, content and
\* message as strings is returned with the same elements in the same order,
\* each reduced to these three fields (other keys are dropped); if an
\* element omits one of the three or gives it a value that is not a string,
\* validation fails for the whole array and the workflow gets the empty list.
C15_AllOrNothingStripped ==
  JustGenerated /\ ExtractedObjects =>
    LET arr == parsed.val.v
        good(x) == \A k \in CodeChangeKeys : k \in DOMAIN x.v /\ x.v[k].t = "str"
    IN /\ (\A n \in 1..Len(arr) : good(arr[n])) =>
             /\ ~degraded
             /\ Len(changes) = Len(arr)
             /\ \A n \in 1..Len(arr) :
                   /\ DOMAIN changes[n] = CodeChangeKeys
                   /\ \A k \in CodeChangeKeys : arr[n].v[k] = JStr(changes[n][k])
       /\ (\E n \in 1..Len(arr) : ~good(arr[n])) =>
             degraded /\ changes = <<>>

\* a two-element list was returned from a text whose first object has an
\* extra key
C15_Witness ==
  /\ JustGenerated
  /\ ExtractedObjects
  /\ Len(changes) = 2
  /\ "extra" \in DOMAIN parsed.val.v[1].v
  /\ changes[2].path = "b"

\* reviewCode has just parsed the LLM text respContent into an object
JustReviewedObject ==
  /\ respContent # NoText
  /\ calls # <<>>
  /\ LastCall.op = "reviewCode"
  /\ parsed.ok
  /\ IsObj(parsed.val)

\* C16: validation of a review object fails when one of the four array keys
\* is missing (reviewCode then returns the all-empty review), and passes
\* when the four arrays are all empty.
C16_ReviewNeedsFourKeys ==
  JustReviewedObject =>
    /\ (\E k \in ReviewKeys : k \notin DOMAIN parsed.val.v) =>
          degraded /\ review = EmptyReview
    /\ (\A k \in ReviewKeys :
          /\ k \in DOMAIN parsed.val.v
          /\ IsArr(parsed.val.v[k])
          /\ Len(parsed.val.v[k].v) = 0) =>
          ~degraded /\ review = EmptyReview

\* validation has failed for a review object that lacks only securityIssues
C16_Witness ==
  /\ JustReviewedObject
  /\ DOMAIN parsed.val.v = ReviewKeys \ {"securityIssues"}
  /\ degraded

(***************************************************************************)
(* Properties of extractJSONFromResponse.                                  *)
(***************************************************************************)
\* an LLM method has just run extractJSONFromResponse on respContent
JustExtracted == respContent # NoText

\* the characters prose is written with: words, whitespace, digits and
\* punctuation, brackets and braces included (no quoted JSON string)
ProseChars == ProseTok \cup WhiteSpace \cup NumTok \cup Structural

IsProse(s) == \A n \in 1..Len(s) : s[n] \in ProseChars

\* text is prose, the JSON array text[a..b], prose
WrapsArrayAt(text, a, b) ==
  /\ a <= b
  /\ text[a] = "["
  /\ IsProse(SubSeq(text, 1, a - 1))
  /\ IsProse(SubSeq(text, b + 1, Len(text)))
  /\ JSONParse(SubSeq(text, a, b)).ok

\* C17 as stated: for a text that wraps one valid JSON array in prose,
\* whatever characters the prose contains, extraction returns that array.
C17_WrappedArrayExtracted ==
  JustExtracted =>
    \A a, b \in 1..Len(respContent) :
      WrapsArrayAt(respContent, a, b) =>
        parsed.ok /\ parsed.val = JSONParse(SubSeq(respContent, a, b)).val

\* C17: for a text that wraps one valid JSON array in prose with no "[" or
\* "{" before the array and no "]" after it, extraction returns that array.
C17_WrappedArrayExtractedBracketFree ==
  JustExtracted =>
    \A a, b \in 1..Len(respContent) :
      /\ \A n \in 1..(a - 1) : respContent[n] \notin {"[", "{"}
      /\ \A n \in (b + 1)..Len(respContent) : respContent[n] # "]"
      /\ WrapsArrayAt(respContent, a, b)
      => parsed.ok /\ parsed.val = JSONParse(SubSeq(respContent, a, b)).val

\* a one-element array was extracted from prose that carries closing
\* brackets before it and opening brackets after it
C17_Witness ==
  /\ JustExtracted
  /\ respContent[1] = "Sure"
  /\ respContent[2] = "]"
  /\ respContent[Len(respContent)] = "Enjoy"
  /\ parsed.ok
  /\ IsArr(parsed.val)
  /\ Len(parsed.val.v) = 1
  /\ Len(changes) = 1

\* the text has a "[" with a later "]" or a "{" with a later "}"
HasSpan(text) ==
  \E a, b \in 1..Len(text) :
    /\ a < b
    /\ \/ text[a] = "[" /\ text[b] = "]"
       \/ text[a] = "{" /\ text[b] = "}"

\* the text is one JSON scalar (a number or a string literal) in whitespace
IsScalarText(text) ==
  /\ Len(NoWhiteSpace(text)) = 1
  /\ \/ NoWhiteSpace(text)[1] \in NumTok
     \/ IsStrTok(NoWhiteSpace(text)[1])

C19_CommitMessagePrefix ==
  \A j \in Positions : IsWrite(calls[j]) =>
    /\ wf \in {"applyFeedback", "generatePR"}
    /\ wf = "applyFeedback" =>
          calls[j].arg = <<"AI Update: ", changes[calls[j].k].message>>
    /\ wf = "generatePR" =>
          calls[j].arg = <<changes[calls[j].k].message>>

\* an Apply-Feedback run has written a file with the prefixed message
C19_Witness ==
  /\ wf = "applyFeedback"
  /\ \E j \in Positions :
        /\ IsWrite(calls[j])
        /\ calls[j].res = "ok"
        /\ calls[j].arg = <<"AI Update: ", "m1">>

\* the step of handleIssue a collaborator call belongs to (0: none)
StepOf(op) ==
  CASE op = "analyzeIssue" -> 1
    [] op = "generateCodeChanges" -> 2
    [] op = "getRef" -> 3
    [] op = "createRef" -> 4
    [] op \in {"getContent", "createOrUpdateFileContents"} -> 5
    [] op = "createPullRequest" -> 6
    [] op = "addLabels" -> 7
    [] op = "createComment" -> 8
    [] OTHER -> 0

\* the position of the only call of op
PositionOf(op) == CHOOSE j \in Positions : calls[j].op = op

BodyOf(c) == Tail(c.arg)

IsOwnComment(body) ==
  /\ body # <<>>
  /\ body[1] \in {"Applied requested changes:", "## AI Code Review",
                  "I've created a pull request"}

\* C28: no comment the action posts starts with the prefix the comment gate
\* of run() tests or with a command token, and an issue_comment event that
\* carries one of the action's own comments starts no workflow: run() makes
\* no call for it, handleComment no LLM call, no write and no comment.
C28_NoSelfTrigger ==
  /\ \A j \in Positions : calls[j].op = "createComment" =>
        /\ ~StartsWith(BodyOf(calls[j]), RUN_COMMENT_PREFIX)
        /\ ~StartsWith(BodyOf(calls[j]), AI_CHANGE_COMMAND)
        /\ ~StartsWith(BodyOf(calls[j]), AI_REVIEW_COMMAND)
        /\ IsOwnComment(BodyOf(calls[j]))
  /\ IsCommentEvent /\ IsOwnComment(event.body) =>
        /\ wf = "none"
        /\ entry = "run" => calls = <<>> /\ pc \in {"run", "done"}
        /\ \A j \in Positions : calls[j].op \in {"getPullRequest", "listPRFiles"}

\* handleComment has returned for an event that carries a review report
C28_Witness ==
  /\ entry = "handleComment"
  /\ event.body = formatCodeReview(EmptyReview, "no findings")
  /\ pc = "done"
  /\ thrown = "none"
  /\ HasCall("listPRFiles")

\* C29: the review comment does not depend on review.securityIssues: the
\* posted body is the rendering of the review with its securityIssues
\* replaced by any other list, under the same security narrative.
C29_ReportIgnoresSecurityIssues ==
  \A j \in Positions : calls[j].op = "createComment" /\ wf = "review" =>
    \A other \in {<<>>, review.qualityIssues, review.improvements} :
      BodyOf(calls[j]) =
        formatCodeReview([review EXCEPT !.securityIssues = other], securityAnalysis)

\* a report was posted for a review that carries a security issue
C29_Witness ==
  /\ wf = "review"
  /\ pc = "done"
  /\ thrown = "none"
  /\ Len(review.securityIssues) > 0
  /\ HasCall("createComment")

\* C30: every timer an operation starts is ended exactly once by the time
\* the operation has returned or thrown: the five LLM operations are over
\* after their step, handleComment when the invocation is over.
C30_TimersEndedOnce ==
  /\ \A op \in TimedOps : timers[op].ended <= timers[op].started
  /\ \A op \in TimedOps \ {"handle_comment"} : timers[op].ended = timers[op].started
  /\ pc = "done" => timers["handle_comment"].ended = timers["handle_comment"].started

(***************************************************************************)
(* Failure and degradation in the Generate-PR workflow.                    *)
(***************************************************************************)
\* C24: when the commit of change k fails in the Generate-PR workflow (the
\* last write of commitChange fails with an error), the writes of changes
\* 1..k-1 have succeeded and the branch keeps their content, no pull
\* request is created and no comment posted, and a run() that got an Error
\* has the failed status with its message.
C24_FailedCommitKeepsEarlier ==
  wf = "generatePR" /\ pc = "done" /\ thrown # "none" /\ Len(calls) > 0
    /\ IsWrite(LastCall) =>
    LET k == LastCall.k IN
    /\ LastCall.res # "ok"
    /\ LastCall.res = thrown
    /\ Len(DoneWrites) = k - 1
    /\ \A n \in 1..(k - 1) :
         /\ DoneWrites[n].k = n
         /\ DoneWrites[n].path = changes[n].path
         /\ DoneWrites[n].content = Base64(changes[n].content)
    /\ otherLog = <<>> =>
         \A n \in 1..(k - 1) :
           (\A m \in (n + 1)..(k - 1) : changes[m].path # changes[n].path)
             => files[changes[n].path] = changes[n].content
    /\ ~HasCall("createPullRequest")
    /\ ~HasCall("addLabels")
    /\ ~HasCall("createComment")
    /\ entry = "run" /\ IsErrorInstance(thrown) => failed = thrown

\* the commit of the second change failed after the first was written
C24_Witness ==
  /\ wf = "generatePR"
  /\ entry = "run"
  /\ pc = "done"
  /\ Len(calls) > 0
  /\ IsWrite(LastCall)
  /\ LastCall.k = 2
  /\ LastCall.res = "ServerError"
  /\ failed = "ServerError"
  /\ otherLog = <<>>
  /\ files[changes[1].path] = changes[1].content

\* C25: a Generate-PR invocation that finds the branch of its issue already
\* created (a second invocation for the same issue number) ends at
\* createRef: the step throws, both LLM calls are already made, and no
\* commit, no pull request and no comment is ever made.
C25_SecondRunStopsAtCreateBranch ==
  [][ wf = "generatePR" /\ branchExists /\ pc = "createRef" =>
        /\ pc' = "done"
        /\ thrown' # "none"
        /\ entry = "run" /\ IsErrorInstance(thrown') => failed' = thrown'
        /\ calls' = Append(calls, calls'[Len(calls')])
        /\ calls'[Len(calls')].op = "createRef"
        /\ calls'[Len(calls')].res # "ok"
        /\ calls[1].op = "analyzeIssue" /\ calls[1].res = "ok"
        /\ calls[2].op = "generateCodeChanges" /\ calls[2].res = "ok"
        /\ \A j \in 1..Len(calls') :
             calls'[j].op \in {"analyzeIssue", "generateCodeChanges", "getRef",
                               "createRef"} ]_vars

\* the second invocation has ended at createRef with the conflict
C25_Witness ==
  /\ wf = "generatePR"
  /\ branchExists
  /\ pc = "done"
  /\ Len(changes) > 0
  /\ Len(calls) > 0
  /\ LastCall.op = "createRef"
  /\ LastCall.res = "Conflict"
  /\ thrown = "Conflict"

\* C26: when generateCodeChanges degraded to the empty list, handleIssue
\* goes on: no lookup and no write is made, and an invocation that ends
\* without an error has created the branch, created the pull request for it
\* and posted the PR-link comment on the issue; it ends early only when a
\* collaborator call fails.
C26_DegradedStillOpensPR ==
  wf = "generatePR" /\ degraded =>
    /\ changes = <<>>
    /\ \A j \in Positions : ~IsLookup(calls[j]) /\ ~IsWrite(calls[j])
    /\ pc = "done" /\ thrown = "none" =>
         /\ [j \in Positions |-> calls[j].op] =
              <<"analyzeIssue", "generateCodeChanges", "getRef", "createRef",
                "createPullRequest", "addLabels", "createComment">>
         /\ \A j \in Positions : calls[j].res = "ok"
         /\ LastCall.arg = PRLinkComment(IssueNumber, prNumber)
    /\ pc = "done" /\ thrown # "none" => LastCall.res # "ok"

\* a degraded generation ended with the PR-link comment posted
C26_Witness ==
  /\ wf = "generatePR"
  /\ degraded
  /\ pc = "done"
  /\ thrown = "none"
  /\ HasCall("createPullRequest")
  /\ HasCall("createComment")

(***************************************************************************)
(* Overlapping invocations on one branch.                                  *)
(***************************************************************************)
\* the other writers are invocations of the action: they commit files and
\* never delete one
OthersOnlyCommit == \A n \in 1..Len(otherLog) : otherLog[n].content # Absent

\* the write n of another writer hit the path of the change that was between
\* its lookup and its write
IsRace(n) ==
  /\ otherLog[n].after > 0
  /\ otherLog[n].path = calls[otherLog[n].after].path

\* C23: when the other writers on the branch are overlapping invocations,
\* a successful update carries the hash of a lookup of the same change with
\* no other write to the path since that lookup, no write of a change
\* succeeds after another writer wrote to its path following the lookup,
\* the other writer's content stays in the file, and the invocation that
\* lost the race ends with an error (a failed run under run()).
C23_NoWriteOverUnseenContent ==
  OthersOnlyCommit =>
    /\ \A j \in Positions : IsWrite(calls[j]) /\ calls[j].res = "ok" =>
         /\ \A n \in 1..Len(otherLog) :
              ~(/\ otherLog[n].path = calls[j].path
                /\ otherLog[n].after < j
                /\ calls[otherLog[n].after].k = calls[j].k)
         /\ calls[j].sha # NoSha =>
              \E l \in 1..(j - 1) :
                /\ IsLookup(calls[l])
                /\ calls[l].k = calls[j].k
                /\ calls[l].res = "ok"
                /\ calls[l].sha = calls[j].sha
                /\ \A n \in 1..Len(otherLog) :
                     ~(otherLog[n].path = calls[j].path
                         /\ l <= otherLog[n].after /\ otherLog[n].after < j)
    /\ \A n \in 1..Len(otherLog) : IsRace(n) =>
         /\ (\A m \in (n + 1)..Len(otherLog) : otherLog[m].path # otherLog[n].path)
              => files[otherLog[n].path] = otherLog[n].content
         /\ pc \in {"updateFile", "createFile", "done"}
         /\ pc = "done" =>
              /\ thrown \in {"Conflict"} \cup RepoFailures
              /\ IsWrite(LastCall) /\ LastCall.res = thrown
              /\ entry = "run" /\ IsErrorInstance(thrown) => failed = thrown

\* an invocation lost the race for an existing file and ended as a failed run
C23_Witness ==
  /\ entry = "run"
  /\ pc = "done"
  /\ OthersOnlyCommit
  /\ Len(otherLog) > 0
  /\ IsRace(1)
  /\ HasCall("getContent") /\ calls[otherLog[1].after].res = "ok"
  /\ thrown = "Conflict"
  /\ failed = "Conflict"
  /\ files[otherLog[1].path] = "other"

(***************************************************************************)
(* Repeated application and repeated paths.                                *)
(***************************************************************************)
\* the content the last successful write for path p in the log cs left
LastWritten(cs, p) ==
  LET ws == {j \in 1..Len(cs) : IsWrite(cs[j]) /\ cs[j].res = "ok" /\ cs[j].path = p}
  IN FromBase64(cs[Max(ws)].content)

WrittenPaths(cs) ==
  {cs[j].path : j \in {n \in 1..Len(cs) : IsWrite(cs[n]) /\ cs[n].res = "ok"}}

\* every call before position j of the running invocation succeeded
AllOkBefore(j) == \A l \in 1..(j - 1) : calls[l].res = "ok"

FirstOpenerSpan(text) ==
  LET opens == {a \in 1..Len(text) : text[a] \in {"[", "{"}}
  IN IF opens = {} \/ Closers(text, Min(opens)) = {}
     THEN [found |-> FALSE]
     ELSE [found |-> TRUE,
           span |-> SubSeq(text, Min(opens), Max(Closers(text, Min(opens))))]

\* the span from the first opener that has a closer of its kind after it to
\* the last such closer
FirstClosedSpan(text) ==
  LET opens == {a \in 1..Len(text) :
                  /\ text[a] \in {"[", "{"}
                  /\ \E b \in (a + 1)..Len(text) :
                       text[b] = (IF text[a] = "[" THEN "]" ELSE "}")}
  IN IF opens = {} THEN [found |-> FALSE]
     ELSE LET a == Min(opens)
              b == Max({n \in (a + 1)..Len(text) :
                          text[n] = (IF text[a] = "[" THEN "]" ELSE "}")})
          IN [found |-> TRUE, span |-> SubSeq(text, a, b)]

\* C22 as stated: for a text that is not JSON as a whole, extraction returns
\* the value of the span from the first '[' or '{' of the text to the last
\* closer of that kind, and fails when that span does not parse.
C22_FirstOpenerSpanOnly ==
  JustExtracted /\ ~JSONParse(respContent).ok
    /\ (\E a \in 1..Len(respContent) : respContent[a] \in {"[", "{"}) =>
    LET f == FirstOpenerSpan(respContent) IN
    IF f.found /\ JSONParse(f.span).ok
    THEN parsed.ok /\ parsed.val = JSONParse(f.span).val
    ELSE ~parsed.ok

\* C22: for a text that is not JSON as a whole, extraction tries one span:
\* from the first '[' or '{' that has a closer of its kind after it to the
\* last such closer.  It returns the value of that span, and fails when the
\* span does not parse or no opener has a closer, whatever smaller or later
\* span would parse.
C22_FirstClosedSpanOnly ==
  JustExtracted /\ ~JSONParse(respContent).ok =>
    LET f == FirstClosedSpan(respContent) IN
    IF f.found
    THEN IF JSONParse(f.span).ok
         THEN parsed.ok /\ parsed.val = JSONParse(f.span).val
         ELSE /\ ~parsed.ok
              /\ parsed.error = "Found JSON-like content but failed to parse"
    ELSE ~parsed.ok /\ parsed.error = "No valid JSON found in response"

\* extraction failed on the one span although a smaller span is an array
C22_Witness ==
  /\ JustExtracted
  /\ respContent = <<"Sure", "[", "]", "Enjoy", "]">>
  /\ JSONParse(<<"[", "]">>).ok
  /\ ~parsed.ok
  /\ parsed.error = "Found JSON-like content but failed to parse"

====
